---- MODULE Spec2Model ----
(***************************************************************************)
(* Place-resolution core of the Google "saved places" exporters            *)
(* (geojson_to_gpx.py, saved_places_to_csv.py, saved_places_to_html.py).   *)
(*                                                                         *)
(* Text is a sequence of tokens: one-character strings, the percent        *)
(* escapes ("%2C", "%71", "%2B", "%252C") and the fixed literals the code   *)
(* formats with ("Saved: ", " | ", ...).  A float is a decimal              *)
(* [m |-> mantissa, e |-> decimals] of value m * 10^(-e), kept normalised  *)
(* so that equal numbers are equal records.  JSON values are tagged        *)
(* records; a key that is absent and a key that is null both read as       *)
(* None through dict.get, so both are the value JNull.                     *)
(***************************************************************************)
EXTENDS Integers, Sequences, FiniteSets, TLC

VARIABLES
    pc,         \* position of the call or loop being run
    variant,    \* which script runs: "gpx", "csv" or "html"
    url,        \* input of the two URL parsers
    urlCoords,  \* result of parse_latlon_from_url(url)
    urlName,    \* result of derive_name_from_url(url)
    feature,    \* input of the per-feature resolvers
    idx,        \* 1-based ordinal passed to the name resolver
    latlon,     \* result of extract_lat_lon(feature)
    named,      \* result of extract_name / extract_name_and_desc / _and_notes
    data,       \* the parsed input document handed to the pipeline
    i,          \* number of features the pipeline loop has consumed
    rows        \* the pipeline's output list so far

vars == <<pc, variant, url, urlCoords, urlName, feature, idx, latlon, named,
          data, i, rows>>

(***************************************************************************)
(* Bounds of the model.                                                    *)
(***************************************************************************)
MaxPieces == 3      \* pieces concatenated into the value of a URL parameter
MaxProps == 4       \* properties a feature of the name specification carries
MaxCoords == 2      \* elements of a geometry's coordinates list
MaxFeatures == 3    \* features of a pipeline document

(***************************************************************************)
(* Python results: None, a value, or a raised exception.                   *)
(***************************************************************************)
None == [k |-> "none"]
Raise(exc) == [k |-> "raise", exc |-> exc]
Pair(lat, lon) == [k |-> "pair", lat |-> lat, lon |-> lon]
Text(s) == [k |-> "str", v |-> s]

(***************************************************************************)
(* Decimal numbers standing for Python floats.                             *)
(***************************************************************************)
RECURSIVE Norm(_, _)
Norm(m, e) ==
    IF m = 0 THEN [m |-> 0, e |-> 0]
    ELSE IF e > 0 /\ m % 10 = 0 THEN Norm(m \div 10, e - 1)
    ELSE [m |-> m, e |-> e]

Abs(n) == IF n < 0 THEN -n ELSE n

RECURSIVE Pow10(_)
Pow10(n) == IF n = 0 THEN 1 ELSE 10 * Pow10(n - 1)

\* abs(x) < 1e-12
NearZero(x) ==
    \/ x.m = 0
    \/ x.e > 12 /\ Abs(x.m) < Pow10(x.e - 12)

(***************************************************************************)
(* Text helpers: str methods and the regular-expression pieces.            *)
(***************************************************************************)
Digits == {"0", "1", "2", "3", "4", "5", "6", "7", "8", "9"}

DigitVal(c) ==
    CASE c = "0" -> 0 [] c = "1" -> 1 [] c = "2" -> 2 [] c = "3" -> 3
      [] c = "4" -> 4 [] c = "5" -> 5 [] c = "6" -> 6 [] c = "7" -> 7
      [] c = "8" -> 8 [] c = "9" -> 9

IsSpace(c) == c = " "

At(s, n, c) == n >= 1 /\ n <= Len(s) /\ s[n] = c

\* first index of token c in s, 0 when absent (str.find + 1)
RECURSIVE FindFrom(_, _, _)
FindFrom(s, c, n) ==
    IF n > Len(s) THEN 0
    ELSE IF s[n] = c THEN n
    ELSE FindFrom(s, c, n + 1)

Find(s, c) == FindFrom(s, c, 1)

\* str.split(c)
RECURSIVE Split(_, _)
Split(s, c) ==
    LET n == Find(s, c)
    IN  IF n = 0 THEN <<s>>
        ELSE <<SubSeq(s, 1, n - 1)>> \o Split(SubSeq(s, n + 1, Len(s)), c)

\* str.replace("+", " ")
PlusToSpace(s) == [n \in 1..Len(s) |-> IF s[n] = "+" THEN " " ELSE s[n]]

\* urllib.parse.unquote on one token: a percent escape decodes one level
PctDecode(c) ==
    CASE c = "%2C" -> ","
      [] c = "%71" -> "q"
      [] c = "%2B" -> "+"
      [] c = "%20" -> " "
      [] c = "%252C" -> "%2C"
      [] OTHER -> c

Unquote(s) == [n \in 1..Len(s) |-> PctDecode(s[n])]

\* str.strip()
RECURSIVE LStrip(_)
LStrip(s) == IF s # <<>> /\ IsSpace(s[1]) THEN LStrip(Tail(s)) ELSE s

RECURSIVE RStrip(_)
RStrip(s) ==
    IF s # <<>> /\ IsSpace(s[Len(s)]) THEN RStrip(SubSeq(s, 1, Len(s) - 1))
    ELSE s

Strip(s) == RStrip(LStrip(s))

\* str.lower() on one token
Lower(c) == IF c = "M" THEN "m" ELSE c

\* \d* from position n: the index after the longest run of digits
RECURSIVE DigitsEnd(_, _)
DigitsEnd(s, n) ==
    IF n <= Len(s) /\ s[n] \in Digits THEN DigitsEnd(s, n + 1) ELSE n

\* \s* from position n
RECURSIVE SpaceEnd(_, _)
SpaceEnd(s, n) ==
    IF n <= Len(s) /\ IsSpace(s[n]) THEN SpaceEnd(s, n + 1) ELSE n

\* -?\d+(?:\.\d+)? matched greedily at position n: the index after the
\* match, 0 when the pattern does not match there
ReNumber(s, n) ==
    LET a == IF At(s, n, "-") THEN n + 1 ELSE n
        b == DigitsEnd(s, a)
        c == IF At(s, b, ".") THEN DigitsEnd(s, b + 1) ELSE b
    IN  IF b = a THEN 0
        ELSE IF c > b + 1 THEN c
        ELSE b

\* int() of a run of digits
RECURSIVE DigitsValue(_)
DigitsValue(s) ==
    IF s = <<>> THEN 0
    ELSE 10 * DigitsValue(SubSeq(s, 1, Len(s) - 1)) + DigitVal(s[Len(s)])

\* float() of a text that matches -?\d+(?:\.\d+)?
Float(s) ==
    LET neg == At(s, 1, "-")
        body == IF neg THEN Tail(s) ELSE s
        dot == Find(body, ".")
        whole == IF dot = 0 THEN body ELSE SubSeq(body, 1, dot - 1)
        frac == IF dot = 0 THEN <<>> ELSE SubSeq(body, dot + 1, Len(body))
        mag == DigitsValue(whole) * Pow10(Len(frac)) + DigitsValue(frac)
    IN  Norm(IF neg THEN -mag ELSE mag, Len(frac))

(***************************************************************************)
(* urllib.parse as the scripts use it.                                     *)
(***************************************************************************)
\* urlparse(url).query: the text after the first "?" of what precedes the
\* first "#"
UrlQuery(u) ==
    LET h == Find(u, "#")
        base == IF h = 0 THEN u ELSE SubSeq(u, 1, h - 1)
        q == Find(base, "?")
    IN  IF q = 0 THEN <<>> ELSE SubSeq(base, q + 1, Len(base))

\* parse_qs over the "&"-separated fields: a field without "=" or with a
\* blank value is dropped; name and value get "+" -> " " and unquote
RECURSIVE QsFields(_)
QsFields(parts) ==
    IF parts = <<>> THEN <<>>
    ELSE LET p == Head(parts)
             eq == Find(p, "=")
             rest == QsFields(Tail(parts))
         IN  IF eq = 0 \/ eq = Len(p) THEN rest
             ELSE <<[name |-> Unquote(PlusToSpace(SubSeq(p, 1, eq - 1))),
                     value |-> Unquote(PlusToSpace(SubSeq(p, eq + 1, Len(p))))]>>
                  \o rest

ParseQs(query) == QsFields(Split(query, "&"))

\* qs.get("q"): the values of the fields named q, in order
QVals(u) == SelectSeq(ParseQs(UrlQuery(u)), LAMBDA f : f.name = <<"q">>)

\* q_text = unquote(q_raw.replace("+", " ")).strip()
QText(q_raw) == Strip(Unquote(PlusToSpace(q_raw)))

(***************************************************************************)
(* The two regular expressions.                                            *)
(***************************************************************************)
NoMatch == [k |-> "nomatch"]
Match(g1, g2) == [k |-> "match", g1 |-> g1, g2 |-> g2]

\* [?&]q=(-?\d+(?:\.\d+)?),(-?\d+(?:\.\d+)?) tried at position n
ReLatLonAt(s, n) ==
    LET e1 == ReNumber(s, n + 3)
        e2 == ReNumber(s, e1 + 1)
    IN  IF /\ At(s, n, "?") \/ At(s, n, "&")
           /\ At(s, n + 1, "q")
           /\ At(s, n + 2, "=")
           /\ e1 # 0
           /\ At(s, e1, ",")
           /\ e2 # 0
        THEN Match(SubSeq(s, n + 3, e1 - 1), SubSeq(s, e1 + 1, e2 - 1))
        ELSE NoMatch

\* re.search: the match at the leftmost position that has one
RECURSIVE ReSearchFrom(_, _)
ReSearchFrom(s, n) ==
    IF n > Len(s) THEN NoMatch
    ELSE IF ReLatLonAt(s, n) # NoMatch THEN ReLatLonAt(s, n)
    ELSE ReSearchFrom(s, n + 1)

ReSearchLatLon(s) == ReSearchFrom(s, 1)

\* re.match(r"^\s*(-?\d+(?:\.\d+)?)\s*,\s*(-?\d+(?:\.\d+)?)\s*$", t)
ReCoordText(t) ==
    LET a == SpaceEnd(t, 1)
        e1 == ReNumber(t, a)
        b == SpaceEnd(t, e1)
        c == SpaceEnd(t, b + 1)
        e2 == ReNumber(t, c)
        d == SpaceEnd(t, e2)
    IN  IF /\ e1 # 0
           /\ At(t, b, ",")
           /\ e2 # 0
           /\ d = Len(t) + 1
        THEN Match(SubSeq(t, a, e1 - 1), SubSeq(t, c, e2 - 1))
        ELSE NoMatch

(***************************************************************************)
(* URL coordinate parser and URL name parser.                              *)
(***************************************************************************)
\* mutant: the query-string fallback is missing
parse_latlon_no_fallback(u) ==
    LET m == ReSearchLatLon(u)
    IN  IF u = <<>> \/ m = NoMatch THEN None
        ELSE Pair(Float(m.g1), Float(m.g2))

parse_latlon_from_url(u) ==
    LET m == ReSearchLatLon(u)
        q_vals == QVals(u)
        m2 == ReCoordText(QText(q_vals[1].value))
    IN  IF u = <<>> THEN None
        ELSE IF m # NoMatch THEN Pair(Float(m.g1), Float(m.g2))
        ELSE IF q_vals = <<>> THEN None
        ELSE IF m2 # NoMatch THEN Pair(Float(m2.g1), Float(m2.g2))
        ELSE None

\* mutant: the "m," prefix is kept
derive_name_keeps_prefix(u) ==
    LET q_vals == QVals(u)
        q_text == QText(q_vals[1].value)
    IN  IF q_vals = <<>> THEN None
        ELSE IF ReCoordText(q_text) # NoMatch THEN None
        ELSE IF q_text # <<>> THEN Text(q_text)
        ELSE None

\* mutant: a pure coordinate pair is not skipped
derive_name_keeps_coords(u) ==
    LET q_vals == QVals(u)
        q_text == QText(q_vals[1].value)
        rest == IF /\ Len(q_text) >= 2
                   /\ Lower(q_text[1]) = "m"
                   /\ q_text[2] = ","
                THEN Strip(SubSeq(q_text, 3, Len(q_text))) ELSE q_text
    IN  IF q_vals = <<>> THEN None
        ELSE IF rest # <<>> THEN Text(rest)
        ELSE None

derive_name_from_url(u) ==
    LET q_vals == QVals(u)
        q_text == QText(q_vals[1].value)
        cut == Strip(SubSeq(q_text, 3, Len(q_text)))
        rest == IF /\ Len(q_text) >= 2
                   /\ Lower(q_text[1]) = "m"
                   /\ q_text[2] = ","
                THEN cut ELSE q_text
    IN  IF q_vals = <<>> THEN None
        ELSE IF ReCoordText(q_text) # NoMatch THEN None
        ELSE IF rest # <<>> THEN Text(rest)
        ELSE None

(***************************************************************************)
(* Inputs of the URL specification: sep key "=" value tail, the value a    *)
(* concatenation of at most MaxPieces pieces.                              *)
(***************************************************************************)
Pieces ==
    { <<"1">>, <<"-", "1", ".", "5">>, <<",">>, <<"+">>, <<"m", ",">>,
      <<"M", ",">>, <<"x">>, <<"%2C">>, <<".">>, <<"%252C">> }

RECURSIVE Concats(_)
Concats(n) ==
    IF n = 0 THEN {<<>>}
    ELSE Concats(n - 1) \cup {v \o p : v \in Concats(n - 1), p \in Pieces}

UrlSeps == { <<"?">>, <<"&">>, <<"#", "?">>, <<"?", "x", "=", "x", "&">> }
UrlKeys == { <<"q">>, <<"z", "q">>, <<"%71">> }
UrlTails == { <<>>, <<"x">>, <<"&", "q", "=", "1", ",", "1">> }

Urls ==
    {<<>>} \cup
    {s \o k \o <<"=">> \o v \o t :
        s \in UrlSeps, k \in UrlKeys, v \in Concats(MaxPieces), t \in UrlTails}

(***************************************************************************)
(* Defaults of the variables a specification does not use.                 *)
(***************************************************************************)
JNull == [t |-> "null"]
NoFeature == [geometry |-> JNull, properties |-> JNull]
NoData == [features |-> JNull]

(***************************************************************************)
(* JSON values as json.load returns them, and the Python operations the    *)
(* resolvers apply to them.                                                *)
(***************************************************************************)
JStr(s) == [t |-> "str", s |-> s]
JNum(m, e) == [t |-> "num", n |-> Norm(m, e)]
JList(l) == [t |-> "list", l |-> l]
JMap(f) == [t |-> "map", d |-> f]
EmptyMap == JMap([x \in {} |-> JNull])

\* bool(x)
Truthy(x) ==
    CASE x.t = "null" -> FALSE
      [] x.t = "str" -> x.s # <<>>
      [] x.t = "num" -> x.n.m # 0
      [] x.t = "list" -> x.l # <<>>
      [] x.t = "map" -> DOMAIN x.d # {}

\* a or b
Or(a, b) == IF Truthy(a) THEN a ELSE b

\* d.get(key) on a dict
Get(d, key) == IF key \in DOMAIN d.d THEN d.d[key] ELSE JNull

\* str(n) of an int
RECURSIVE NatText(_)
NatText(n) ==
    LET d == <<"0", "1", "2", "3", "4", "5", "6", "7", "8", "9">>[(n % 10) + 1]
    IN  IF n < 10 THEN <<d>> ELSE NatText(n \div 10) \o <<d>>

IntText(n) == IF n < 0 THEN <<"-">> \o NatText(-n) ELSE NatText(n)

\* str(x) of a truthy JSON value: a string is itself, an int its digits
\* (the numbers of the model's property values are ints)
PyStr(x) ==
    CASE x.t = "str" -> x.s
      [] x.t = "num" -> IntText(x.n.m)
      [] x.t = "list" -> <<"[...]">>
      [] x.t = "map" -> <<"{...}">>

\* float(x): a number converts, a text converts when it spells a number
\* (the texts of the model are a plain decimal or not a number at all),
\* any other text raises ValueError, a list or a dict raises TypeError
Floated(d) == [k |-> "float", f |-> d]

PyFloat(x) ==
    CASE x.t = "num" -> Floated(x.n)
      [] x.t = "str" ->
            IF ReNumber(Strip(x.s), 1) = Len(Strip(x.s)) + 1
            THEN Floated(Float(Strip(x.s)))
            ELSE Raise("ValueError")
      [] OTHER -> Raise("TypeError")

(***************************************************************************)
(* Coordinate resolver.                                                    *)
(***************************************************************************)
UrlKey == "google_maps_url"
UrlKeyAlt == "Google Maps URL"
Point == JStr(<<"Point">>)

extract_lat_lon(f) ==
    LET geom == Or(f.geometry, EmptyMap)
        props == Or(f.properties, EmptyMap)
        coords == Get(geom, "coordinates")
        usable == /\ geom.t = "map"
                  /\ Get(geom, "type") = Point
                  /\ coords.t = "list"
                  /\ Len(coords.l) >= 2
                  /\ coords.l[1] # JNull
                  /\ coords.l[2] # JNull
        lon == PyFloat(coords.l[1])
        lat == PyFloat(coords.l[2])
        u == Or(Get(props, UrlKey), Get(props, UrlKeyAlt))
        parsed == parse_latlon_from_url(u.s)
    IN  IF usable /\ lon.k = "raise" THEN lon
        ELSE IF usable /\ lat.k = "raise" THEN lat
        ELSE IF usable /\ ~(NearZero(lat.f) /\ NearZero(lon.f))
        THEN Pair(lat.f, lon.f)
        ELSE IF props.t # "map" THEN Raise("AttributeError")
        ELSE IF u.t = "str" /\ parsed # None THEN parsed
        ELSE None

(***************************************************************************)
(* URL specification: both parsers applied to one URL.                     *)
(***************************************************************************)
InitUrl ==
    /\ pc = "url"
    /\ url \in Urls
    /\ urlCoords = None
    /\ urlName = None
    /\ variant = "gpx"
    /\ feature = NoFeature
    /\ idx = 1
    /\ latlon = None
    /\ named = None
    /\ data = NoData
    /\ i = 0
    /\ rows = <<>>

CallParseLatLon ==
    /\ pc = "url"
    /\ urlCoords' = parse_latlon_from_url(url)
    /\ pc' = "urlCoords"
    /\ UNCHANGED <<variant, url, urlName, feature, idx, latlon, named, data, i, rows>>

CallDeriveName ==
    /\ pc = "urlCoords"
    /\ urlName' = derive_name_from_url(url)
    /\ pc' = "urlDone"
    /\ UNCHANGED <<variant, url, urlCoords, feature, idx, latlon, named, data, i, rows>>

NextUrl == CallParseLatLon \/ CallDeriveName

SpecUrl == InitUrl /\ [][NextUrl]_vars

(***************************************************************************)
(* What the specification says of the URL parsers, stated on the text      *)
(* itself rather than by scanning.                                         *)
(***************************************************************************)
\* s is a number: optional sign, digits, optional decimal fraction
IsNum(s) ==
    LET body == IF At(s, 1, "-") THEN Tail(s) ELSE s
        dots == {n \in 1..Len(body) : body[n] = "."}
    IN  /\ body # <<>>
        /\ \A n \in 1..Len(body) : body[n] \in Digits \cup {"."}
        /\ Cardinality(dots) <= 1
        /\ ~At(body, 1, ".")
        /\ ~At(body, Len(body), ".")

\* t is exactly <number>,<number>, whitespace allowed around the comma
CommaOfPair(t) ==
    {c \in 1..Len(t) :
        /\ t[c] = ","
        /\ IsNum(RStrip(SubSeq(t, 1, c - 1)))
        /\ IsNum(LStrip(SubSeq(t, c + 1, Len(t))))}

IsPairText(t) == CommaOfPair(t) # {}

PairOfText(t) ==
    LET c == CHOOSE c \in CommaOfPair(t) : TRUE
    IN  Pair(Float(RStrip(SubSeq(t, 1, c - 1))),
             Float(LStrip(SubSeq(t, c + 1, Len(t)))))

\* the ends e of a literal q=<lat>,<lon> whose "q" is at position p and
\* whose comma is at position c
LiteralEnds(u, p, c) ==
    {e \in (c + 1)..Len(u) :
        IsNum(SubSeq(u, p + 2, c - 1)) /\ IsNum(SubSeq(u, c + 1, e))}

LiteralCommas(u, p) ==
    {c \in (p + 3)..Len(u) : u[c] = "," /\ LiteralEnds(u, p, c) # {}}

\* positions of the "q" of a literal q=<lat>,<lon>; when anchored, only
\* those directly after "?" or "&"
LiteralStarts(u, anchored) ==
    {p \in 1..Len(u) :
        /\ u[p] = "q"
        /\ At(u, p + 1, "=")
        /\ anchored => (At(u, p - 1, "?") \/ At(u, p - 1, "&"))
        /\ LiteralCommas(u, p) # {}}

Least(S) == CHOOSE n \in S : \A o \in S : n <= o
Greatest(S) == CHOOSE n \in S : \A o \in S : n >= o

\* the decoded, trimmed text of the first q parameter
HasQ(u) == QVals(u) # <<>>
FirstQText(u) == QText(QVals(u)[1].value)

\* first success wins: the first literal q=<lat>,<lon>, else the pair the
\* first q parameter decodes to, else nothing
StatedLatLon(u, anchored) ==
    LET starts == LiteralStarts(u, anchored)
        p == Least(starts)
        c == Least(LiteralCommas(u, p))
        e == Greatest(LiteralEnds(u, p, c))
    IN  IF starts # {}
        THEN Pair(Float(SubSeq(u, p + 2, c - 1)), Float(SubSeq(u, c + 1, e)))
        ELSE IF HasQ(u) /\ IsPairText(FirstQText(u)) THEN PairOfText(FirstQText(u))
        ELSE None

HasMPrefix(t) == Len(t) >= 2 /\ t[1] \in {"m", "M"} /\ t[2] = ","

StatedName(u) ==
    LET t == FirstQText(u)
        r == IF HasMPrefix(t) THEN LStrip(SubSeq(t, 3, Len(t))) ELSE t
    IN  IF ~HasQ(u) THEN None
        ELSE IF IsPairText(t) THEN None
        ELSE IF r # <<>> THEN Text(r)
        ELSE None

\* C8 (as amended): parse_latlon_from_url returns the pair of the first
\* literal q=<lat>,<lon> that directly follows "?" or "&"; otherwise the
\* pair the first q parameter's decoded, trimmed text spells exactly;
\* otherwise None (also for the empty string and when there is no q).
C8_UrlCoordsAnchored ==
    pc \in {"urlCoords", "urlDone"} => urlCoords = StatedLatLon(url, TRUE)

\* C8 as stated: the literal q=<lat>,<lon> counts anywhere in the string.
C8_UrlCoordsAnywhere ==
    pc \in {"urlCoords", "urlDone"} => urlCoords = StatedLatLon(url, FALSE)

\* the pair came from the decoded q parameter, not from the literal scan
C8_Witness ==
    /\ pc = "urlDone"
    /\ urlCoords.k = "pair"
    /\ LiteralStarts(url, FALSE) = {}

\* C9: derive_name_from_url returns None without a q parameter or when the
\* decoded, trimmed q text is a pure coordinate pair; otherwise the text
\* without a leading "m," and the whitespace after it, or None if nothing
\* is left; a returned name is never empty.
C9_UrlName ==
    pc = "urlDone" =>
        /\ urlName = StatedName(url)
        /\ urlName.k = "str" => urlName.v # <<>>

\* a name was returned after an "m," prefix and a space were removed
C9_Witness ==
    /\ pc = "urlDone"
    /\ HasQ(url)
    /\ FirstQText(url) = <<"m", ",", " ", "x">>
    /\ urlName = Text(<<"x">>)

\* C10 (as amended): when the first q parameter's decoded, trimmed text is
\* exactly a coordinate pair, the coordinate parser returns a pair and the
\* name parser returns None.
C10_PurePairExcludesName ==
    (pc = "urlDone" /\ HasQ(url) /\ IsPairText(FirstQText(url))) =>
        urlCoords.k = "pair" /\ urlName = None

\* C10 as stated: whenever the coordinate parser returns a pair, the name
\* parser returns None.
C10_CoordsExcludeName ==
    (pc = "urlDone" /\ urlCoords.k = "pair") => urlName = None

\* a pure pair, percent-encoded so that only the q parameter yields it
C10_Witness ==
    /\ pc = "urlDone"
    /\ HasQ(url)
    /\ FirstQText(url) = <<"1", ",", "1">>
    /\ LiteralStarts(url, FALSE) = {}
    /\ urlCoords.k = "pair"
    /\ urlName = None

(***************************************************************************)
(* Name and annotation resolver, one definition per script.                *)
(***************************************************************************)
NameKeys == <<"name", "Name", "title", "Title", "label", "Label">>

Named(name, annot) == [k |-> "named", name |-> name, annot |-> annot]

\* for key in (...): if key in props and props[key]: str(props[key])
RECURSIVE LabelOf(_, _)
LabelOf(props, ks) ==
    IF ks = <<>> THEN None
    ELSE IF Head(ks) \in DOMAIN props.d /\ Truthy(props.d[Head(ks)])
    THEN Text(PyStr(props.d[Head(ks)]))
    ELSE LabelOf(props, Tail(ks))

\* sep.join(parts)
RECURSIVE Join(_, _)
Join(parts, sep) ==
    IF parts = <<>> THEN <<>>
    ELSE IF Len(parts) = 1 THEN parts[1]
    ELSE parts[1] \o <<sep>> \o Join(Tail(parts), sep)

\* mutant: the label fields are tried before the URL
NameValLabelFirst(props, ordinal) ==
    LET loc == Or(Get(props, "location"), EmptyMap)
        u == Or(Get(props, UrlKey), Get(props, UrlKeyAlt))
        fromUrl == derive_name_from_url(u.s)
        label == LabelOf(props, NameKeys)
    IN  IF loc.t = "map" /\ Truthy(Get(loc, "name")) THEN PyStr(Get(loc, "name"))
        ELSE IF label # None THEN label.v
        ELSE IF u.t = "str" /\ fromUrl # None THEN fromUrl.v
        ELSE <<"Saved Place ">> \o IntText(ordinal)

\* steps 1 to 4 of the name resolution, the same in the three scripts
NameVal(props, ordinal) ==
    LET loc == Or(Get(props, "location"), EmptyMap)
        u == Or(Get(props, UrlKey), Get(props, UrlKeyAlt))
        fromUrl == derive_name_from_url(u.s)
        label == LabelOf(props, NameKeys)
    IN  IF loc.t = "map" /\ Truthy(Get(loc, "name")) THEN PyStr(Get(loc, "name"))
        ELSE IF u.t = "str" /\ fromUrl # None THEN fromUrl.v
        ELSE IF label # None THEN label.v
        ELSE <<"Saved Place ">> \o IntText(ordinal)

DatePart(props) ==
    IF Truthy(Get(props, "date")) THEN <<<<"Saved: ">> \o PyStr(Get(props, "date"))>>
    ELSE <<>>

AddressPart(props) ==
    LET loc == Or(Get(props, "location"), EmptyMap)
    IN  IF loc.t = "map" /\ Truthy(Get(loc, "address"))
        THEN <<<<"Address: ">> \o PyStr(Get(loc, "address"))>>
        ELSE <<>>

UrlPart(props) ==
    LET u == Or(Get(props, UrlKey), Get(props, UrlKeyAlt))
    IN  IF u.t = "str" THEN <<<<"Google Maps: ">> \o u.s>> ELSE <<>>

CommentPart(props) ==
    LET comment == Or(Get(props, "Comment"), Get(props, "comment"))
    IN  IF Truthy(comment) THEN <<PyStr(comment)>> ELSE <<>>

\* mutant: the comment is appended before the address
extract_name_and_desc_reordered(f, ordinal) ==
    LET props == Or(f.properties, EmptyMap)
    IN  Named(NameVal(props, ordinal),
              Join(DatePart(props) \o CommentPart(props) \o AddressPart(props)
                   \o UrlPart(props), " | "))

\* geojson_to_gpx.py
extract_name_and_desc(f, ordinal) ==
    LET props == Or(f.properties, EmptyMap)
    IN  IF props.t # "map" THEN Raise("AttributeError")
        ELSE Named(NameVal(props, ordinal),
                   Join(DatePart(props) \o AddressPart(props) \o UrlPart(props)
                        \o CommentPart(props), " | "))

\* saved_places_to_csv.py
extract_name_and_notes(f, ordinal) ==
    LET props == Or(f.properties, EmptyMap)
    IN  IF props.t # "map" THEN Raise("AttributeError")
        ELSE Named(NameVal(props, ordinal),
                   Join(DatePart(props) \o AddressPart(props) \o CommentPart(props),
                        " | "))

\* saved_places_to_html.py
extract_name(f, ordinal) ==
    LET props == Or(f.properties, EmptyMap)
    IN  IF props.t # "map" THEN Raise("AttributeError")
        ELSE Text(NameVal(props, ordinal))

(***************************************************************************)
(* Inputs of the coordinate specification.                                 *)
(***************************************************************************)
\* the dicts over the keys ks (a sequence) with at most n keys present,
\* the value of key k drawn from dom[k]
RECURSIVE MapsOver(_, _, _)
MapsOver(ks, dom, n) ==
    IF ks = <<>> \/ n = 0 THEN {[x \in {} |-> JNull]}
    ELSE MapsOver(Tail(ks), dom, n)
         \cup {(Head(ks) :> v) @@ m :
                  m \in MapsOver(Tail(ks), dom, n - 1), v \in dom[Head(ks)]}

RECURSIVE SeqsUpTo(_, _)
SeqsUpTo(S, n) ==
    IF n = 0 THEN {<<>>}
    ELSE SeqsUpTo(S, n - 1)
         \cup {Append(l, x) : l \in {q \in SeqsUpTo(S, n - 1) : Len(q) = n - 1}, x \in S}

UrlLatLon == <<"?", "q", "=", "-", "1", ".", "5", ",", "1">>
UrlOrigin == <<"?", "q", "=", "0", ",", "0">>
UrlNamed == <<"?", "q", "=", "m", ",", "x">>
UrlOther == <<"?", "q", "=", "1", ",", "1">>

\* null, 0, 1e-13, 1e-12, 1, -2.5, a text that is no number, a numeric text
CoordElems ==
    { JNull, JNum(0, 0), JNum(1, 13), JNum(1, 12), JNum(1, 0), JNum(-25, 1),
      JStr(<<"x">>), JStr(<<"1", ".", "5">>) }

Geometries ==
    { JNull, JStr(<<"x">>), EmptyMap,
      JMap([type |-> Point]),
      JMap([type |-> Point, coordinates |-> JStr(<<"x">>)]),
      JMap([type |-> JStr(<<"LineString">>),
            coordinates |-> JList(<<JNum(1, 0), JNum(1, 0)>>)]),
      JMap([coordinates |-> JList(<<JNum(1, 0), JNum(1, 0)>>)]) }
    \cup {JMap([type |-> Point, coordinates |-> JList(l)]) :
             l \in SeqsUpTo(CoordElems, MaxCoords)}
    \cup {JMap([type |-> Point,
                coordinates |-> JList(<<JNum(-25, 1), JNum(1, 0), JNum(1, 0)>>)])}

UrlDom ==
    (UrlKey :> {JStr(<<>>), JStr(UrlLatLon), JStr(UrlOrigin), JStr(UrlNamed), JNum(7, 0)})
    @@ (UrlKeyAlt :> {JStr(<<>>), JStr(UrlOther)})

CoordProps ==
    {JNull} \cup {JMap(m) : m \in MapsOver(<<UrlKey, UrlKeyAlt>>, UrlDom, 2)}

CoordFeatures ==
    {[geometry |-> g, properties |-> p] : g \in Geometries, p \in CoordProps}

(***************************************************************************)
(* Coordinate specification: extract_lat_lon applied to one feature.       *)
(***************************************************************************)
InitFeature ==
    /\ pc = "feature"
    /\ feature \in CoordFeatures
    /\ latlon = None
    /\ variant = "gpx"
    /\ url = <<>>
    /\ urlCoords = None
    /\ urlName = None
    /\ idx = 1
    /\ named = None
    /\ data = NoData
    /\ i = 0
    /\ rows = <<>>

CallExtractLatLon ==
    /\ pc = "feature"
    /\ latlon' = extract_lat_lon(feature)
    /\ pc' = "located"
    /\ UNCHANGED <<variant, url, urlCoords, urlName, feature, idx, named, data, i, rows>>

NextFeature == CallExtractLatLon

SpecFeature == InitFeature /\ [][NextFeature]_vars

(***************************************************************************)
(* Inputs of the name specification: the properties mappings with at most  *)
(* MaxProps keys present.                                                  *)
(***************************************************************************)
PropKeys ==
    <<UrlKey, UrlKeyAlt, "location", "name", "Name", "title", "Title", "label",
      "Label", "date", "Comment", "comment">>

Locations ==
    { JStr(<<"s">>),
      JMap([name |-> JStr(<<"L">>)]),
      JMap([address |-> JStr(<<"1 Main St">>)]),
      JMap([name |-> JStr(<<"L">>), address |-> JStr(<<"1 Main St">>)]),
      JMap([name |-> JStr(<<>>), address |-> JStr(<<>>)]) }

PropDom ==
    (UrlKey :> {JStr(<<>>), JStr(UrlNamed), JStr(UrlOther), JNum(7, 0)})
    @@ (UrlKeyAlt :> {JStr(<<>>), JStr(<<"?", "q", "=", "M", ",", "+", "y">>)})
    @@ ("location" :> Locations)
    @@ ("name" :> {JStr(<<>>), JStr(<<"n">>), JNum(7, 0)})
    @@ ("Name" :> {JStr(<<>>), JStr(<<"N">>)})
    @@ ("title" :> {JStr(<<>>), JStr(<<"t">>)})
    @@ ("Title" :> {JStr(<<>>), JStr(<<"T">>)})
    @@ ("label" :> {JStr(<<>>), JStr(<<"l">>)})
    @@ ("Label" :> {JStr(<<>>), JStr(<<"B">>)})
    @@ ("date" :> {JStr(<<>>), JStr(<<"2021-05-01">>)})
    @@ ("Comment" :> {JStr(<<>>), JStr(<<"C">>)})
    @@ ("comment" :> {JStr(<<>>), JStr(<<"c">>)})

NameFeatures ==
    {[geometry |-> JNull, properties |-> JNull]}
    \cup {[geometry |-> JNull, properties |-> JMap(m)] :
             m \in MapsOver(PropKeys, PropDom, MaxProps)}

Variants == {"gpx", "csv", "html"}
Ordinals == {3, 12}

(***************************************************************************)
(* Name specification: the script's name resolver applied to one feature.  *)
(***************************************************************************)
InitName ==
    /\ pc = "props"
    /\ feature \in NameFeatures
    /\ idx \in Ordinals
    /\ variant \in Variants
    /\ named = None
    /\ latlon = None
    /\ url = <<>>
    /\ urlCoords = None
    /\ urlName = None
    /\ data = NoData
    /\ i = 0
    /\ rows = <<>>

CallExtractNameAndDesc ==
    /\ pc = "props"
    /\ variant = "gpx"
    /\ named' = extract_name_and_desc(feature, idx)
    /\ pc' = "named"
    /\ UNCHANGED <<variant, url, urlCoords, urlName, feature, idx, latlon, data, i, rows>>

CallExtractNameAndNotes ==
    /\ pc = "props"
    /\ variant = "csv"
    /\ named' = extract_name_and_notes(feature, idx)
    /\ pc' = "named"
    /\ UNCHANGED <<variant, url, urlCoords, urlName, feature, idx, latlon, data, i, rows>>

CallExtractName ==
    /\ pc = "props"
    /\ variant = "html"
    /\ named' = extract_name(feature, idx)
    /\ pc' = "named"
    /\ UNCHANGED <<variant, url, urlCoords, urlName, feature, idx, latlon, data, i, rows>>

NextName == CallExtractNameAndDesc \/ CallExtractNameAndNotes \/ CallExtractName

SpecName == InitName /\ [][NextName]_vars

(***************************************************************************)
(* What the specification says of the coordinate resolver.                 *)
(***************************************************************************)
\* the value the scripts take as the record's map-service URL
MapUrl(f) ==
    IF f.properties.t = "map"
    THEN Or(Get(f.properties, UrlKey), Get(f.properties, UrlKeyAlt))
    ELSE JNull

\* geometry.type is "Point" and coordinates has two leading non-null
\* numeric elements that are not both within 1e-12 of zero
NumericPoint(f) ==
    LET g == f.geometry
        c == Get(g, "coordinates")
    IN  /\ g.t = "map"
        /\ Get(g, "type") = Point
        /\ c.t = "list"
        /\ Len(c.l) >= 2
        /\ c.l[1].t = "num"
        /\ c.l[2].t = "num"
        /\ ~(NearZero(c.l[1].n) /\ NearZero(c.l[2].n))

StatedCoords(f) ==
    IF NumericPoint(f)
    THEN Pair(f.geometry.d.coordinates.l[2].n, f.geometry.d.coordinates.l[1].n)
    ELSE IF MapUrl(f).t = "str" THEN parse_latlon_from_url(MapUrl(f).s)
    ELSE None

\* C2: extract_lat_lon returns (coordinates[1], coordinates[0]) of a numeric,
\* non-placeholder Point whatever the URL says, otherwise what the URL
\* coordinate parser returns for the record's URL, otherwise None.
C2_CoordinatePriority ==
    pc = "located" => latlon = StatedCoords(feature)

\* the features every field of which has the type the data model gives it
WellTyped(f) ==
    LET c == Get(f.geometry, "coordinates")
    IN  /\ f.properties.t \in {"null", "map"}
        /\ (f.geometry.t = "map" /\ c.t = "list") =>
               \A n \in 1..Len(c.l) : c.l[n].t \in {"null", "num"}

\* The priority of C2 on the well-typed features (no text among the
\* coordinates, properties a mapping or absent).
WellTypedPriority ==
    (pc = "located" /\ WellTyped(feature)) => latlon = StatedCoords(feature)

\* C3: the resolution functions never raise for a data-shape problem in a
\* feature; here, extract_lat_lon returns a pair or None.
C3_NeverRaises ==
    pc = "located" => latlon.k # "raise"

(***************************************************************************)
(* What the specification says of the name and annotation resolver.        *)
(***************************************************************************)
NonEmpty(x) == x # JNull /\ x # JStr(<<>>)

Field(d, key) ==
    IF d.t = "map" /\ key \in DOMAIN d.d /\ NonEmpty(d.d[key])
    THEN PyStr(d.d[key])
    ELSE <<>>

\* the name sources in the stated order, an absent or empty one as <<>>
Candidates(f, ordinal) ==
    LET props == f.properties
        loc == IF props.t = "map" /\ "location" \in DOMAIN props.d
               THEN props.d["location"] ELSE JNull
        u == MapUrl(f)
        fromUrl == IF u.t = "str" /\ derive_name_from_url(u.s) # None
                   THEN derive_name_from_url(u.s).v ELSE <<>>
    IN  <<Field(loc, "name"), fromUrl,
          Field(props, "name"), Field(props, "Name"), Field(props, "title"),
          Field(props, "Title"), Field(props, "label"), Field(props, "Label"),
          <<"Saved Place ">> \o IntText(ordinal)>>

FirstNonEmpty(c) == c[Least({n \in 1..Len(c) : c[n] # <<>>})]

NameOf(r) == IF r.k = "named" THEN r.name ELSE r.v

\* C6: the resolved name is the first non-empty of location.name, the URL
\* name parser's result, name, Name, title, Title, label, Label and
\* "Saved Place <ordinal>"; it is never empty.
C6_NamePriority ==
    pc = "named" =>
        /\ NameOf(named) = FirstNonEmpty(Candidates(feature, idx))
        /\ NameOf(named) # <<>>

\* the URL's name wins over a label field that is present
C6_Witness ==
    /\ pc = "named"
    /\ Field(feature.properties, "name") = <<"n">>
    /\ Field(feature.properties, "location") = <<>>
    /\ NameOf(named) = <<"x">>

\* the parts of the annotation in the stated order, an absent one as <<>>;
\* the URL part only when withUrl
StatedParts(f, withUrl) ==
    LET props == f.properties
        loc == IF props.t = "map" /\ "location" \in DOMAIN props.d
               THEN props.d["location"] ELSE JNull
        comment == IF Field(props, "Comment") # <<>> THEN Field(props, "Comment")
                   ELSE Field(props, "comment")
        date == IF Field(props, "date") # <<>>
                THEN <<"Saved: ">> \o Field(props, "date") ELSE <<>>
        address == IF Field(loc, "address") # <<>>
                   THEN <<"Address: ">> \o Field(loc, "address") ELSE <<>>
        link == IF withUrl /\ MapUrl(f).t = "str"
                THEN <<"Google Maps: ">> \o MapUrl(f).s ELSE <<>>
    IN  SelectSeq(<<date, address, link, comment>>, LAMBDA part : part # <<>>)

\* the first n parts joined with " | "
RECURSIVE JoinedTo(_, _)
JoinedTo(parts, n) ==
    IF n = 0 THEN <<>>
    ELSE IF n = 1 THEN parts[1]
    ELSE JoinedTo(parts, n - 1) \o <<" | ">> \o parts[n]

StatedAnnotation(f, withUrl) ==
    JoinedTo(StatedParts(f, withUrl), Len(StatedParts(f, withUrl)))

\* C7 (as amended): the annotation joins with " | " the present parts
\* "Saved: <date>", "Address: <address>", "Google Maps: <url>" and the
\* comment, in that order; the "Google Maps: <url>" part belongs to the
\* GPX variant alone (whenever the value taken as the URL is a string) and
\* the CSV variant never has it.
C7_AnnotationByVariant ==
    (pc = "named" /\ variant \in {"gpx", "csv"}) =>
        named.annot = StatedAnnotation(feature, variant = "gpx")

\* C7 as stated: the GPX and the CSV variant both include the URL part.
C7_AnnotationWithUrl ==
    (pc = "named" /\ variant \in {"gpx", "csv"}) =>
        named.annot = StatedAnnotation(feature, TRUE)

\* the CSV notes of a feature that has a date, an address, a URL and a
\* comment
C7_Witness ==
    /\ pc = "named"
    /\ variant = "csv"
    /\ MapUrl(feature) = JStr(UrlOther)
    /\ named.annot = <<"Saved: ", "2021-05-01", " | ", "Address: ", "1 Main St",
                       " | ", "C">>

(***************************************************************************)
(* Record extraction pipeline: json_to_gpx / feature_to_wpt, json_to_rows  *)
(* and json_to_entries.                                                    *)
(***************************************************************************)
\* html.escape(s, quote=True)
HtmlEscape(s) ==
    [n \in 1..Len(s) |->
        CASE s[n] = "&" -> "&amp;"
          [] s[n] = "<" -> "&lt;"
          [] s[n] = ">" -> "&gt;"
          [] s[n] = "\"" -> "&quot;"
          [] s[n] = "'" -> "&#x27;"
          [] OTHER -> s[n]]

\* n zero-padded to w digits
RECURSIVE Padded(_, _)
Padded(n, w) == IF w = 0 THEN <<>> ELSE Padded(n \div 10, w - 1) \o NatText(n % 10)

\* round(m / d), halves to even
RoundDiv(m, d) ==
    LET q == m \div d
        r == m % d
    IN  IF 2 * r > d \/ (2 * r = d /\ q % 2 = 1) THEN q + 1 ELSE q

\* f"{x:.8f}"
Fmt8(x) ==
    LET mag == Abs(x.m)
        scaled == IF x.e <= 8 THEN mag * Pow10(8 - x.e)
                  ELSE RoundDiv(mag, Pow10(x.e - 8))
    IN  (IF x.m < 0 THEN <<"-">> ELSE <<>>)
        \o NatText(scaled \div Pow10(8)) \o <<".">> \o Padded(scaled % Pow10(8), 8)

PropsOf(f) == Or(f.properties, EmptyMap)

\* the waypoint feature_to_wpt builds (its lat, lon, <name> and <desc>)
Waypoint(f, ordinal, ll) ==
    LET nd == extract_name_and_desc(f, ordinal)
    IN  [lat |-> Fmt8(ll.lat), lon |-> Fmt8(ll.lon),
         name |-> HtmlEscape(nd.name), desc |-> HtmlEscape(nd.annot)]

\* the dict json_to_rows appends
CsvRow(f, ordinal, ll) ==
    LET nn == extract_name_and_notes(f, ordinal)
        props == PropsOf(f)
    IN  [name |-> nn.name, latitude |-> Fmt8(ll.lat), longitude |-> Fmt8(ll.lon),
         url |-> Or(Or(Get(props, UrlKey), Get(props, UrlKeyAlt)), JStr(<<>>)),
         notes |-> nn.annot]

\* the dict json_to_entries appends
HtmlEntry(f, ordinal, ll) ==
    LET props == PropsOf(f)
    IN  [name |-> extract_name(f, ordinal).v, lat |-> Fmt8(ll.lat),
         lon |-> Fmt8(ll.lon),
         date |-> IF "date" \in DOMAIN props.d THEN props.d["date"] ELSE JStr(<<>>),
         gmaps_url |-> Or(Or(Get(props, UrlKey), Get(props, UrlKeyAlt)), JStr(<<>>))]

Place(v, f, ordinal, ll) ==
    CASE v = "gpx" -> Waypoint(f, ordinal, ll)
      [] v = "csv" -> CsvRow(f, ordinal, ll)
      [] v = "html" -> HtmlEntry(f, ordinal, ll)

\* what the for loop iterates: features = data.get("features") or []; a
\* list gives its elements, a str its characters, a dict its keys
Items(d) ==
    LET features == Or(d.features, JList(<<>>))
    IN  CASE features.t = "list" -> features.l
          [] features.t = "str" -> [n \in 1..Len(features.s) |-> JStr(<<features.s[n]>>)]
          [] features.t = "map" ->
                LET key == CHOOSE key \in DOMAIN features.d : TRUE
                IN  <<JStr(<<key>>)>>
          [] OTHER -> <<>>

Iterable(d) == Or(d.features, JList(<<>>)).t \in {"list", "str", "map"}

\* a feature is a dict; anything else has no .get
IsFeature(x) == "geometry" \in DOMAIN x

\* mutant: a resolved place is put in front of the list
PrependPlace(out, v, f, ordinal, ll) == <<Place(v, f, ordinal, ll)>> \o out

\* rows.append({...}) / wpts.append(w)
AppendPlace(out, v, f, ordinal, ll) == Append(out, Place(v, f, ordinal, ll))

(***************************************************************************)
(* Inputs of the pipeline: documents whose features value is absent, not   *)
(* a list, or a list of at most MaxFeatures features.                      *)
(***************************************************************************)
GeoPoint(lon, lat) == JMap([type |-> Point, coordinates |-> JList(<<lon, lat>>)])

PipeFeatures ==
    { \* a located, labelled place
      [geometry |-> GeoPoint(JNum(1, 0), JNum(-25, 1)),
       properties |-> JMap([name |-> JStr(<<"n">>), date |-> JStr(<<"2021-05-01">>)])],
      \* the (0, 0) placeholder with coordinates in the URL
      [geometry |-> GeoPoint(JNum(0, 0), JNum(0, 0)),
       properties |-> JMap((UrlKey :> JStr(UrlLatLon)))],
      \* no geometry, a URL that spells (0, 0)
      [geometry |-> JNull, properties |-> JMap((UrlKey :> JStr(UrlOrigin)))],
      \* no geometry, a URL that names the place
      [geometry |-> JNull, properties |-> JMap((UrlKeyAlt :> JStr(UrlNamed)))],
      \* nothing at all
      [geometry |-> JNull, properties |-> JNull],
      \* a located place with nothing to name it
      [geometry |-> GeoPoint(JNum(-25, 1), JNum(1, 0)), properties |-> JNull],
      \* coordinates that are text
      [geometry |-> GeoPoint(JStr(<<"x">>), JNum(1, 0)), properties |-> JNull] }

FeaturesValues ==
    { JNull, JStr(<<>>), JStr(<<"a", "b">>), JNum(0, 0), JNum(5, 0), EmptyMap,
      JMap([a |-> JNum(1, 0)]) }
    \cup {JList(l) : l \in SeqsUpTo(PipeFeatures, MaxFeatures)}

Documents == {[features |-> x] : x \in FeaturesValues}

(***************************************************************************)
(* Pipeline specification.                                                 *)
(***************************************************************************)
Init ==
    /\ pc = "start"
    /\ data \in Documents
    /\ variant \in Variants
    /\ i = 0
    /\ rows = <<>>
    /\ url = <<>>
    /\ urlCoords = None
    /\ urlName = None
    /\ feature = NoFeature
    /\ idx = 1
    /\ latlon = None
    /\ named = None

\* features = data.get("features") or []; enumerate(features, start=1)
Enumerate ==
    /\ pc = "start"
    /\ pc' = IF Iterable(data) THEN "loop" ELSE "raised"
    /\ UNCHANGED <<variant, url, urlCoords, urlName, feature, idx, latlon, named,
                   data, i, rows>>

\* one turn of the loop: the feature at ordinal i + 1
LoopBody ==
    /\ pc = "loop"
    /\ i < Len(Items(data))
    /\ LET feat == Items(data)[i + 1]
           ll == extract_lat_lon(feat)
       IN  IF ~IsFeature(feat) \/ ll.k = "raise"
           THEN pc' = "raised" /\ UNCHANGED <<i, rows>>
           ELSE /\ pc' = "loop"
                /\ i' = i + 1
                /\ rows' = IF ll = None THEN rows
                           ELSE AppendPlace(rows, variant, feat, i + 1, ll)
    /\ UNCHANGED <<variant, url, urlCoords, urlName, feature, idx, latlon, named, data>>

\* the loop is exhausted and the list is returned
Return ==
    /\ pc = "loop"
    /\ i = Len(Items(data))
    /\ pc' = "done"
    /\ UNCHANGED <<variant, url, urlCoords, urlName, feature, idx, latlon, named,
                   data, i, rows>>

Next == Enumerate \/ LoopBody \/ Return

Spec == Init /\ [][Next]_vars

(***************************************************************************)
(* Claims about the pipeline.                                              *)
(***************************************************************************)
LatOf(row) == IF variant = "csv" THEN row.latitude ELSE row.lat
LonOf(row) == IF variant = "csv" THEN row.longitude ELSE row.lon

\* the emitted coordinate text denotes a value within 1e-12 of zero
Placeholder(text) == NearZero(Float(text))

\* the ordinals, among the first n, of the features whose coordinates resolve
Located(n) ==
    {p \in 1..n : IsFeature(Items(data)[p]) /\ extract_lat_lon(Items(data)[p]).k = "pair"}

\* the k-th smallest ordinal of S
Nth(S, k) == CHOOSE p \in S : Cardinality({q \in S : q < p}) = k - 1

\* C1: every place emitted has latitude and longitude not both within 1e-12
\* of zero, whichever source they came from, and a feature neither source
\* locates produces no place.
C1_NoPlaceholderEmitted ==
    /\ \A n \in 1..Len(rows) : ~(Placeholder(LatOf(rows[n])) /\ Placeholder(LonOf(rows[n])))
    /\ Len(rows) = Cardinality(Located(i))

\* C4: a features value that is absent or not a list is treated as empty:
\* nothing is processed, nothing is emitted and nothing is raised.
C4_NonListIsEmpty ==
    data.features.t # "list" => (pc # "raised" /\ i = 0 /\ rows = <<>>)

\* C5: after every prefix of the input, the places emitted are exactly the
\* places of the located features of that prefix, in input order, each built
\* with the feature's 1-based ordinal in the input (dropped features counted).
C5_OrderedSubsequence ==
    pc \in {"loop", "done"} =>
        /\ Len(rows) = Cardinality(Located(i))
        /\ \A n \in 1..Len(rows) :
              LET p == Nth(Located(i), n)
              IN  rows[n] = Place(variant, Items(data)[p], p,
                                  extract_lat_lon(Items(data)[p]))

\* a run that dropped a feature between two it kept, the second of them named
\* by its ordinal
C5_Witness ==
    /\ pc = "done"
    /\ Located(i) = {1, 3}
    /\ Len(rows) = 2
    /\ rows[2].name = <<"Saved Place ", "3">>

====
